---------------------------- MODULE Spec2Model ----------------------------
(***************************************************************************)
(* A model of SiaBridge (bridge/siabridge.go, bridge/utils.go): the        *)
(* SQLite catalog of buckets and objects, the cache directory, the Sia     *)
(* renter behind the HTTP helpers, the foreground API calls and the        *)
(* background manager (checkSiaUploads, then purgeCache).                  *)
(*                                                                         *)
(* Every API call is a sequence of steps, one per database statement,      *)
(* file-system call or HTTP request, so that calls of different            *)
(* goroutines interleave where the program lets them.                      *)
(***************************************************************************)
EXTENDS Integers, FiniteSets, Sequences, TLC

\* ------------------------------------------------------------------ bounds
\* The clock (time.Now().Unix()) runs from 1 to MaxTime.
MaxTime == 3
\* Number of distinct contents a Put may carry.
NumData == 2
\* Number of API calls the application makes in one run.
MaxOps == 3
\* Number of times the application calls Start.
MaxStarts == 3
\* The non-zero purge_after value a Put may carry (seconds).
PurgeWindow == 1

\* ------------------------------------------------------------- name spaces
Callers == {"c1", "c2"}
Buckets == {"B1"}
Names == {"x"}
Keys == Buckets \X Names
Data == 1..NumData
PurgeChoices == {0, PurgeWindow}

\* The value of time.Unix(0,0): "not uploaded yet".
Sentinel == 0
\* Contents of a cache path: no file, a file whose bytes are not all written,
\* or the complete bytes of a content d \in Data.
NoFile == 0
Partial == -1
\* What GetObjectInfo leaves in objInfo when it returns an error.
NoObject == [exists |-> FALSE]
NoCall == [op |-> "none"]

VARIABLES
    buckets,    \* table buckets(name PRIMARY KEY, created)
    objects,    \* table objects(bucket, name, ..., PRIMARY KEY(bucket,name))
    cache,      \* cache[k]: content of file CacheDir/bucket/name
    remote,     \* files the Sia renter holds: rows [path, data, available]
    now,        \* time.Now().Unix()
    pc,         \* pc[c]: where caller c is in its API call
    arg,        \* arg[c]: the call and its arguments
    objInfo,    \* objInfo[c]: GetObject's local objInfo
    res,        \* res[c]: the error the call returned ("ok" for nil)
    wr,         \* wr[c]: what GetObject copied to the writer
    putBefore,  \* putBefore[c]: the data of the Put of the same key that c completed
                \* with success right before the current call (NoFile: none)
    doneAt,     \* doneAt[c]: clock value when c's GetObject returned nil
    conc,       \* conc[c]: when c called PutObjectFromReader, another caller was
                \* inside PutObjectFromReader for the same bucket and name, and
                \* the key had no record but the one that caller had inserted
    ops,        \* API calls made so far
    again,      \* again[c]: c's call is CreateBucket(b) and c's call before it
                \* was CreateBucket(b) that returned nil
    accepted,   \* keys for which a PutObjectFromReader returned nil and no
                \* DELETE of the object or of its bucket has run since
    mpc,        \* where the manager goroutine is
    mObjs,      \* checkSiaUploads: objs still to go through
    mBuckets,   \* purgeCache: buckets still to go through
    mList,      \* purgeCache: objects of the current bucket still to go through
    mStart,     \* clock value when the current manager pass began
    tickers,    \* the tickers Start has created, each with its goroutine
    g_cache_ticker, \* the ticker the global points at
    stopped,    \* the tickers on which Stop() was called
    pending,    \* the tickers whose channel C holds a tick
    inPass,     \* the goroutines (named by their ticker) inside manager()
    g_db        \* the handle the global points at: "open" or "closed"

dbVars == <<buckets, objects>>
callVars == <<pc, arg, objInfo, res, wr, putBefore, doneAt, conc, ops, again,
              accepted>>
mgrVars == <<mpc, mObjs, mBuckets, mList, mStart>>
schedVars == <<tickers, g_cache_ticker, stopped, pending, inPass, g_db>>
vars == <<buckets, objects, cache, remote, now, pc, arg, objInfo, res, wr,
          putBefore, doneAt, conc, ops, again, accepted, mpc, mObjs, mBuckets, mList,
          mStart, tickers, g_cache_ticker, stopped, pending, inPass, g_db>>

\* ------------------------------------------------------- catalog (SQLite)
KeyOf(r) == <<r.bucket, r.name>>

bucketExists_never(bucket) == FALSE

bucketExists(bucket) == \E r \in buckets : r.name = bucket

insertBucket(bucket) == buckets \cup {[name |-> bucket, created |-> now]}

objectExists(bucket, objectName) ==
    \E r \in objects : r.bucket = bucket /\ r.name = objectName

\* The PRIMARY KEY(bucket,name) constraint of table objects: an INSERT of a
\* key that is present fails.
uniqueViolation_off(bucket, objectName) == FALSE

uniqueViolation(bucket, objectName) == objectExists(bucket, objectName)

insertObject(bucket, objectName, size, queued, uploaded, purge_after) ==
    objects \cup {[bucket |-> bucket, name |-> objectName, size |-> size,
                   queued |-> queued, uploaded |-> uploaded,
                   purge_after |-> purge_after, cached_fetches |-> 0,
                   sia_fetches |-> 0, last_fetch |-> -1]}

GetObjectInfo(bucket, objectName) ==
    IF objectExists(bucket, objectName)
    THEN CHOOSE r \in objects : r.bucket = bucket /\ r.name = objectName
    ELSE NoObject

ListBuckets == buckets

ListObjects(bucket) == {r \in objects : r.bucket = bucket}

listUploadingObjects_all == objects

listUploadingObjects == {r \in objects : r.uploaded = Sentinel}

markObjectUploaded(bucket, objectName) ==
    {IF r.bucket = bucket /\ r.name = objectName
     THEN [r EXCEPT !.uploaded = now] ELSE r : r \in objects}

updateCachedFetches(bucket, objectName, fetches) ==
    {IF r.bucket = bucket /\ r.name = objectName
     THEN [r EXCEPT !.cached_fetches = fetches] ELSE r : r \in objects}

\* DELETE FROM buckets WHERE name=?
deleteBucketRow(bucket) == {r \in buckets : r.name # bucket}

\* DELETE FROM objects WHERE bucket=? AND name=?
deleteObjectRow_bucket(bucket, objectName) ==
    {r \in objects : r.bucket # bucket}

deleteObjectRow(bucket, objectName) ==
    {r \in objects : ~(r.bucket = bucket /\ r.name = objectName)}

\* fi.Size() of the file a Put reads: content d is d bytes long.
SizeOf(d) == d

\* ------------------------------------------------------------ Sia renter
RemoteHas(k) == \E f \in remote : f.path = k
RemoteFile(k) == CHOOSE f \in remote : f.path = k
RemoteAvailable(k) == \E f \in remote : f.path = k /\ f.available

\* ------------------------------------------------------------------ Init
\* Start opens the database file and the cache directory that earlier runs
\* left behind (CREATE TABLE IF NOT EXISTS, os.Mkdir of an existing directory).
\* Fresh: nothing was stored. Stored(bs, p): an earlier
\* PutObjectFromReader of B1/x with content 1 and purge_after p returned nil
\* at second 1, with bucket B1 created before it (bs) or never created.
Fresh ==
    [buckets |-> {}, objects |-> {}, cache |-> [k \in Keys |-> NoFile], remote |-> {}]

Stored(bs, p) ==
    [buckets |-> bs,
     objects |-> {[bucket |-> "B1", name |-> "x", size |-> SizeOf(1),
                   queued |-> 1, uploaded |-> Sentinel, purge_after |-> p,
                   cached_fetches |-> 0, sia_fetches |-> 0, last_fetch |-> -1]},
     cache |-> [k \in Keys |-> IF k = <<"B1", "x">> THEN 1 ELSE NoFile],
     remote |-> {[path |-> <<"B1", "x">>, data |-> 1, available |-> FALSE]}]

Stores ==
    {Fresh} \cup {Stored(bs, p) : bs \in {{}, {[name |-> "B1", created |-> 1]}},
                                  p \in PurgeChoices}

\* The state after Start on the store st.
Boot(st) ==
    /\ buckets = st.buckets
    /\ objects = st.objects
    /\ cache = st.cache
    /\ remote = st.remote
    /\ now = 1
    /\ pc = [c \in Callers |-> "idle"]
    /\ arg = [c \in Callers |-> NoCall]
    /\ objInfo = [c \in Callers |-> NoObject]
    /\ res = [c \in Callers |-> "none"]
    /\ wr = [c \in Callers |-> NoFile]
    /\ putBefore = [c \in Callers |-> NoFile]
    /\ doneAt = [c \in Callers |-> 0]
    /\ conc = [c \in Callers |-> FALSE]
    /\ ops = 0
    /\ again = [c \in Callers |-> FALSE]
    /\ accepted = {KeyOf(r) : r \in objects}
    /\ mpc = "idle"
    /\ mObjs = {}
    /\ mBuckets = {}
    /\ mList = {}
    /\ mStart = 0
    /\ tickers = {1}
    /\ g_cache_ticker = 1
    /\ stopped = {}
    /\ pending = {}
    /\ inPass = {}
    /\ g_db = "open"

Init == \E st \in Stores : Boot(st)

\* Two more stores of earlier runs. StoredTwo: B1/x and B1/y were stored and
\* are both still uploading. Purged(p): B1/x was stored, checkSiaUploads
\* marked it at second 1 and purgeCache removed its cache file.
OtherKey == <<"B1", "y">>

StoredTwo ==
    [buckets |-> {[name |-> "B1", created |-> 1]},
     objects |-> {[bucket |-> "B1", name |-> n, size |-> SizeOf(1),
                   queued |-> 1, uploaded |-> Sentinel, purge_after |-> 0,
                   cached_fetches |-> 0, sia_fetches |-> 0, last_fetch |-> -1]
                  : n \in {"x", "y"}},
     cache |-> [k \in Keys \cup {OtherKey} |->
                   IF k \in {<<"B1", "x">>, OtherKey} THEN 1 ELSE NoFile],
     remote |-> {[path |-> <<"B1", n>>, data |-> 1, available |-> FALSE]
                 : n \in {"x", "y"}}]

Purged(p) ==
    [buckets |-> {[name |-> "B1", created |-> 1]},
     objects |-> {[bucket |-> "B1", name |-> "x", size |-> SizeOf(1),
                   queued |-> 1, uploaded |-> 1, purge_after |-> p,
                   cached_fetches |-> 0, sia_fetches |-> 0, last_fetch |-> -1]},
     cache |-> [k \in Keys |-> NoFile],
     remote |-> {[path |-> <<"B1", "x">>, data |-> 1, available |-> TRUE]}]

InitSeq ==
    \E st \in Stores \cup {StoredTwo} \cup {Purged(p) : p \in PurgeChoices} : Boot(st)

\* ---------------------------------------------------------- caller steps
Goto(c, l) ==
    /\ pc' = [pc EXCEPT ![c] = l]
    /\ res' = [res EXCEPT ![c] = "none"]
    /\ doneAt' = [doneAt EXCEPT ![c] = 0]
    /\ accepted' = IF l = "del_post"
                   THEN accepted \ {<<arg'[c].bucket, arg'[c].name>>}
                   ELSE accepted

Return(c, e) ==
    /\ pc' = [pc EXCEPT ![c] = "done"]
    /\ res' = [res EXCEPT ![c] = e]
    /\ doneAt' = [doneAt EXCEPT ![c] =
                     IF arg'[c].op = "GetObject" /\ e = "ok" THEN now ELSE 0]
    /\ accepted' = IF arg'[c].op = "PutObject" /\ e = "ok"
                   THEN accepted \cup {<<arg'[c].bucket, arg'[c].name>>}
                   ELSE IF arg'[c].op = "DeleteBucket"
                        THEN {k \in accepted : k[1] # arg'[c].bucket}
                        ELSE accepted

K(c) == <<arg[c].bucket, arg[c].name>>

BucketCall(o, b) == [op |-> o, bucket |-> b, name |-> "", data |-> NoFile, purge_after |-> 0]
ObjectCall(o, b, n) == [op |-> o, bucket |-> b, name |-> n, data |-> NoFile, purge_after |-> 0]
PutCall(b, n, d, p) == [op |-> "PutObject", bucket |-> b, name |-> n, data |-> d, purge_after |-> p]

\* The application calls an API function: the call's first statement runs.
Begin(c, call) ==
    /\ pc[c] \in {"idle", "done"}
    /\ ops < MaxOps
    /\ ops' = ops + 1
    /\ arg' = [arg EXCEPT ![c] = call]
    /\ putBefore' = [putBefore EXCEPT ![c] =
                        IF /\ pc[c] = "done"
                           /\ arg[c].op = "PutObject"
                           /\ res[c] = "ok"
                           /\ K(c) = <<call.bucket, call.name>>
                        THEN arg[c].data ELSE NoFile]
    /\ wr' = [wr EXCEPT ![c] = NoFile]
    /\ again' = [d \in Callers |->
                    /\ d = c
                    /\ call.op = "CreateBucket"
                    /\ pc[c] = "done"
                    /\ arg[c] = call
                    /\ res[c] = "ok"]
    /\ conc' = [d \in Callers |->
                   /\ d = c
                   /\ call.op = "PutObject"
                   /\ \E e \in Callers \ {c} :
                         /\ pc[e] \notin {"idle", "done"}
                         /\ arg[e].op = "PutObject"
                         /\ K(e) = <<call.bucket, call.name>>
                         /\ objectExists(call.bucket, call.name)
                            <=> pc[e] = "put_upload"]

Continue(c, l) ==
    /\ pc[c] = l
    /\ UNCHANGED <<arg, putBefore, conc, ops, again>>

\* CreateBucket: bucketExists
CreateBucketExists(c) ==
    /\ \E b \in Buckets : Begin(c, BucketCall("CreateBucket", b))
    /\ IF bucketExists(arg'[c].bucket) THEN Return(c, "ok") ELSE Goto(c, "cb_insert")
    /\ objInfo' = [objInfo EXCEPT ![c] = NoObject]
    /\ UNCHANGED <<dbVars, cache, remote, now, mgrVars, schedVars>>

\* CreateBucket: insertBucket (name is the PRIMARY KEY of buckets)
CreateBucketInsert(c) ==
    /\ Continue(c, "cb_insert")
    /\ IF bucketExists(arg[c].bucket)
       THEN Return(c, "UniqueConstraint") /\ UNCHANGED buckets
       ELSE Return(c, "ok") /\ buckets' = insertBucket(arg[c].bucket)
    /\ UNCHANGED <<objects, cache, remote, now, objInfo, wr, mgrVars,
                 schedVars>>

DeleteBucket(c) ==
    /\ \E b \in Buckets : Begin(c, BucketCall("DeleteBucket", b))
    /\ buckets' = deleteBucketRow(arg'[c].bucket)
    /\ Return(c, "ok")
    /\ objInfo' = [objInfo EXCEPT ![c] = NoObject]
    /\ UNCHANGED <<objects, cache, remote, now, mgrVars, schedVars>>

\* ----------------------------------------------------- PutObjectFromReader
\* objectExists: an object of the same name is a Conflict
PutExists(c) ==
    /\ \E b \in Buckets, n \in Names, d \in Data, p \in PurgeChoices :
          Begin(c, PutCall(b, n, d, p))
    /\ IF objectExists(arg'[c].bucket, arg'[c].name)
       THEN Return(c, "Conflict")
       ELSE Goto(c, "put_stat")
    /\ objInfo' = [objInfo EXCEPT ![c] = NoObject]
    /\ UNCHANGED <<dbVars, cache, remote, now, mgrVars, schedVars>>

\* copyFile: "Does file already exist?" - then nothing is written
copyFileSkips(dst) == cache[dst] # NoFile

PutStat(c) ==
    /\ Continue(c, "put_stat")
    /\ IF copyFileSkips(K(c)) THEN Goto(c, "put_insert") ELSE Goto(c, "put_create")
    /\ UNCHANGED <<dbVars, cache, remote, now, objInfo, wr, mgrVars, schedVars>>

\* copyFile: os.Create truncates the file, or fails
PutCreate(c) ==
    /\ Continue(c, "put_create")
    /\ \/ /\ cache' = [cache EXCEPT ![K(c)] = Partial]
          /\ Goto(c, "put_copy")
       \/ /\ Return(c, "CacheIOFailure")
          /\ UNCHANGED cache
    /\ UNCHANGED <<dbVars, remote, now, objInfo, wr, mgrVars, schedVars>>

\* copyFile: io.Copy, Sync and the deferred Close; a failed copy leaves the
\* truncated file behind
PutCopy(c) ==
    /\ Continue(c, "put_copy")
    /\ \/ /\ cache' = [cache EXCEPT ![K(c)] = arg[c].data]
          /\ Goto(c, "put_insert")
       \/ /\ Return(c, "CacheIOFailure")
          /\ UNCHANGED cache
    /\ UNCHANGED <<dbVars, remote, now, objInfo, wr, mgrVars, schedVars>>

\* insertObject, with uploaded = 0
PutInsert(c) ==
    /\ Continue(c, "put_insert")
    /\ IF uniqueViolation(arg[c].bucket, arg[c].name)
       THEN Return(c, "UniqueConstraint") /\ UNCHANGED objects
       ELSE /\ objects' = insertObject(arg[c].bucket, arg[c].name, SizeOf(arg[c].data),
                                       now, 0, arg[c].purge_after)
            /\ Goto(c, "put_upload")
    /\ UNCHANGED <<buckets, cache, remote, now, objInfo, wr, mgrVars,
                 schedVars>>

\* post /renter/upload/<siaObj> source=<cache file>: the daemon accepts the
\* request and takes the bytes of the cache file, or the request fails
PutUpload(c) ==
    /\ Continue(c, "put_upload")
    /\ \/ /\ remote' = {f \in remote : f.path # K(c)}
                       \cup {[path |-> K(c), data |-> cache[K(c)], available |-> FALSE]}
          /\ Return(c, "ok")
       \/ /\ Return(c, "RemoteFailure")
          /\ UNCHANGED remote
    /\ UNCHANGED <<dbVars, cache, now, objInfo, wr, mgrVars, schedVars>>

\* ----------------------------------------------------------------- GetObject
GetInfo(c) ==
    /\ \E b \in Buckets, n \in Names : Begin(c, ObjectCall("GetObject", b, n))
    /\ objInfo' = [objInfo EXCEPT ![c] = GetObjectInfo(arg'[c].bucket, arg'[c].name)]
    /\ IF objInfo'[c] = NoObject THEN Return(c, "NotFound") ELSE Goto(c, "get_stat")
    /\ UNCHANGED <<dbVars, cache, remote, now, mgrVars, schedVars>>

\* "make sure the file was completely uploaded to Sia"
notUploaded_never(info) == FALSE

notUploaded(info) == info.uploaded = Sentinel

\* a GetObject that does not look for the cached file
GetStat_noCache(c) ==
    /\ Continue(c, "get_stat")
    /\ IF notUploaded(objInfo[c])
       THEN Return(c, "IncompleteUpload")
       ELSE Goto(c, "get_download")
    /\ UNCHANGED <<dbVars, cache, remote, now, objInfo, wr, mgrVars, schedVars>>

\* os.Stat(cachedFile), and the Uploaded test when the file is not there
GetStat(c) ==
    /\ Continue(c, "get_stat")
    /\ IF cache[K(c)] # NoFile
       THEN Goto(c, "get_copy")
       ELSE IF notUploaded(objInfo[c])
            THEN Return(c, "IncompleteUpload")
            ELSE Goto(c, "get_download")
    /\ UNCHANGED <<dbVars, cache, remote, now, objInfo, wr, mgrVars, schedVars>>

\* os.Open and io.Copy of the cached file
GetCopy(c) ==
    /\ Continue(c, "get_copy")
    /\ IF cache[K(c)] = NoFile
       THEN Return(c, "CacheIOFailure") /\ UNCHANGED wr
       ELSE wr' = [wr EXCEPT ![c] = cache[K(c)]] /\ Goto(c, "get_upd_cached")
    /\ UNCHANGED <<dbVars, cache, remote, now, objInfo, mgrVars, schedVars>>

\* "Increment cached fetch count"
GetUpdateCached(c) ==
    /\ Continue(c, "get_upd_cached")
    /\ objects' = updateCachedFetches(arg[c].bucket, arg[c].name,
                                      objInfo[c].cached_fetches + 1)
    /\ Return(c, "ok")
    /\ UNCHANGED <<buckets, cache, remote, now, objInfo, wr, mgrVars,
                 schedVars>>

\* get /renter/download/<siaObj>?destination=<cache file>: blocks until the
\* file is written, or fails
GetDownload(c) ==
    /\ Continue(c, "get_download")
    /\ \/ /\ RemoteAvailable(K(c))
          /\ cache' = [cache EXCEPT ![K(c)] = RemoteFile(K(c)).data]
          /\ Goto(c, "get_copy_dl")
       \/ /\ Return(c, "RemoteFailure")
          /\ UNCHANGED cache
    /\ UNCHANGED <<dbVars, remote, now, objInfo, wr, mgrVars, schedVars>>

\* os.Open and io.Copy of the downloaded file
GetCopyDownloaded(c) ==
    /\ Continue(c, "get_copy_dl")
    /\ IF cache[K(c)] = NoFile
       THEN Return(c, "CacheIOFailure") /\ UNCHANGED wr
       ELSE wr' = [wr EXCEPT ![c] = cache[K(c)]] /\ Goto(c, "get_upd_sia")
    /\ UNCHANGED <<dbVars, cache, remote, now, objInfo, mgrVars, schedVars>>

\* "Increment sia fetch count": the statement calls updateCachedFetches
GetUpdateSia(c) ==
    /\ Continue(c, "get_upd_sia")
    /\ objects' = updateCachedFetches(arg[c].bucket, arg[c].name,
                                      objInfo[c].cached_fetches + 1)
    /\ Return(c, "ok")
    /\ UNCHANGED <<buckets, cache, remote, now, objInfo, wr, mgrVars,
                 schedVars>>

\* -------------------------------------------------------------- DeleteObject
DeleteObjectExec(c) ==
    /\ \E b \in Buckets, n \in Names : Begin(c, ObjectCall("DeleteObject", b, n))
    /\ objects' = deleteObjectRow(arg'[c].bucket, arg'[c].name)
    /\ Goto(c, "del_post")
    /\ objInfo' = [objInfo EXCEPT ![c] = NoObject]
    /\ UNCHANGED <<buckets, cache, remote, now, mgrVars, schedVars>>

\* post /renter/delete/<siaObj>
DeleteObjectPost(c) ==
    /\ Continue(c, "del_post")
    /\ \/ /\ remote' = {f \in remote : f.path # K(c)}
          /\ Return(c, "ok")
       \/ /\ Return(c, "RemoteFailure")
          /\ UNCHANGED remote
    /\ UNCHANGED <<dbVars, cache, now, objInfo, wr, mgrVars, schedVars>>

CallerStep(c) ==
    \/ CreateBucketExists(c)
    \/ CreateBucketInsert(c)
    \/ DeleteBucket(c)
    \/ PutExists(c)
    \/ PutStat(c)
    \/ PutCreate(c)
    \/ PutCopy(c)
    \/ PutInsert(c)
    \/ PutUpload(c)
    \/ GetInfo(c)
    \/ GetStat(c)
    \/ GetCopy(c)
    \/ GetUpdateCached(c)
    \/ GetDownload(c)
    \/ GetCopyDownloaded(c)
    \/ GetUpdateSia(c)
    \/ DeleteObjectExec(c)
    \/ DeleteObjectPost(c)

\* ------------------------------------------------------------------ manager
\* purgeCache: the test that decides os.Remove of the cached file
shouldPurge(object) ==
    /\ object.uploaded # Sentinel
    /\ now - object.uploaded > object.purge_after
    /\ now - object.last_fetch > object.purge_after

\* checkSiaUploads: "file.SiaPath == siaObj && file.Available" for some file
isAvailable(obj, files) ==
    \E file \in files : file.path = KeyOf(obj) /\ file.available

\* purgeCache returns: manager() returns and the goroutine waits for a tick.
PassEnd ==
    /\ mpc' = "end"
    /\ mBuckets' = {}
    /\ mList' = {}
    /\ mStart' = 0

\* purgeCache: the loops go on to the next object, to the next bucket with
\* ListObjects still to run, or purgeCache returns.
PurgeNext(bs, os) ==
    IF os # {}
    THEN mpc' = "pc_loop" /\ mBuckets' = bs /\ mList' = os /\ UNCHANGED mStart
    ELSE IF bs # {}
         THEN mpc' = "pc_objects" /\ mBuckets' = bs /\ mList' = {} /\ UNCHANGED mStart
         ELSE PassEnd

\* manager() is called: checkSiaUploads runs listUploadingObjects.
BeginPass ==
    /\ mpc' = "csu_files"
    /\ mStart' = now
    /\ mObjs' = listUploadingObjects
    /\ UNCHANGED <<dbVars, cache, remote, now, callVars, mBuckets, mList>>

\* The ticker fires, the goroutine of Start calls manager(), and
\* checkSiaUploads runs listUploadingObjects.
ManagerTick ==
    /\ mpc \in {"idle", "end"}
    /\ BeginPass
    /\ UNCHANGED schedVars

\* checkSiaUploads: getAPI /renter/files. On an error checkSiaUploads returns
\* and manager goes on to purgeCache. The objects that no available file
\* matches take no statement of the loop.
CheckFiles ==
    /\ mpc = "csu_files"
    /\ \/ /\ mObjs' = {obj \in mObjs : isAvailable(obj, remote)}
          /\ mpc' = IF mObjs' = {} THEN "pc_buckets" ELSE "csu_loop"
       \/ /\ mObjs' = {}
          /\ mpc' = "pc_buckets"
    /\ UNCHANGED <<dbVars, cache, remote, now, callVars, mBuckets, mList,
                 mStart, schedVars>>

\* The objects whose UPDATE in markObjectUploaded can fail.
Unmarkable == {<<"B1", "x">>}

\* checkSiaUploads: markObjectUploaded for one obj of "for _, obj := range
\* objs"; when the statement fails checkSiaUploads returns the error, manager
\* prints it and goes on to purgeCache.
CheckLoop ==
    /\ mpc = "csu_loop"
    /\ \E obj \in mObjs :
          \/ /\ mObjs' = mObjs \ {obj}
             /\ objects' = markObjectUploaded(obj.bucket, obj.name)
             /\ mpc' = IF mObjs' = {} THEN "pc_buckets" ELSE "csu_loop"
          \/ /\ KeyOf(obj) \in Unmarkable
             /\ mObjs' = {}
             /\ UNCHANGED objects
             /\ mpc' = "pc_buckets"
    /\ UNCHANGED <<buckets, cache, remote, now, callVars, mBuckets, mList,
                 mStart, schedVars>>

\* purgeCache: ListBuckets
PurgeBuckets ==
    /\ mpc = "pc_buckets"
    /\ PurgeNext({r.name : r \in ListBuckets}, {})
    /\ UNCHANGED <<dbVars, cache, remote, now, callVars, mObjs, schedVars>>

\* purgeCache: ListObjects for one bucket of "for _, bucket := range buckets"
PurgeObjects ==
    /\ mpc = "pc_objects"
    /\ \E bucket \in mBuckets : PurgeNext(mBuckets \ {bucket}, ListObjects(bucket))
    /\ UNCHANGED <<dbVars, cache, remote, now, callVars, mObjs, schedVars>>

\* purgeCache: one iteration of "for _, object := range objects"
PurgeLoop ==
    /\ mpc = "pc_loop"
    /\ \E object \in mList :
          /\ IF shouldPurge(object)
             THEN cache' = [cache EXCEPT ![KeyOf(object)] = NoFile]
             ELSE UNCHANGED cache
          /\ PurgeNext(mBuckets, mList \ {object})
    /\ UNCHANGED <<dbVars, remote, now, callVars, mObjs, schedVars>>

manager ==
    \/ ManagerTick
    \/ CheckFiles
    \/ CheckLoop
    \/ PurgeBuckets
    \/ PurgeObjects
    \/ PurgeLoop

\* -------------------------------------------------------------- environment
\* A second passes.
Tick ==
    /\ now < MaxTime
    /\ now' = now + 1
    /\ UNCHANGED <<dbVars, cache, remote, callVars, mgrVars, schedVars>>

\* The Sia network finishes the upload of a file: it becomes available.
RemoteProgress ==
    /\ \E f \in remote :
          /\ ~f.available
          /\ remote' = (remote \ {f}) \cup {[f EXCEPT !.available = TRUE]}
    /\ UNCHANGED <<dbVars, cache, now, callVars, mgrVars, schedVars>>

\* ------------------------------------------------------- Start and Stop
\* The goroutines of Start, seen from outside manager(): a pass is the time
\* between the call of manager() and its return. What the pass of the one
\* goroutine of a single Start does, statement by statement, is "manager".
\*
\* Start: os.Mkdir, initDatabase (sql.Open into g_db, CREATE TABLE IF NOT
\* EXISTS), time.NewTicker into g_cache_ticker, go func() over its channel.
Start ==
    /\ Cardinality(tickers) < MaxStarts
    /\ LET t == Cardinality(tickers) + 1
       IN /\ tickers' = tickers \cup {t}
          /\ g_cache_ticker' = t
    /\ g_db' = "open"
    /\ UNCHANGED <<dbVars, cache, remote, now, callVars, mgrVars, stopped,
                   pending, inPass>>

\* Stop: g_cache_ticker.Stop() and g_db.Close()
Stop ==
    /\ stopped' = stopped \cup {g_cache_ticker}
    /\ g_db' = "closed"
    /\ UNCHANGED <<dbVars, cache, remote, now, callVars, mgrVars, tickers,
                   g_cache_ticker, pending, inPass>>

\* A ticker that was not stopped sends a tick; its channel holds one tick
\* and a tick that finds the channel full is dropped.
TickerFire(t) ==
    /\ t \in tickers \ stopped
    /\ t \notin pending
    /\ pending' = pending \cup {t}
    /\ UNCHANGED <<dbVars, cache, remote, now, callVars, mgrVars, tickers,
                   g_cache_ticker, stopped, inPass, g_db>>

\* a loop that would start manager() without waiting for its return
blocked_never(t) == FALSE

\* The goroutine calls manager() in the body of its range loop: while the
\* call has not returned it receives no tick.
blocked(t) == t \in inPass

\* "for _ = range g_cache_ticker.C": the goroutine takes the tick and calls
\* manager()
PassBegin(t) ==
    /\ t \in pending
    /\ ~blocked(t)
    /\ pending' = pending \ {t}
    /\ inPass' = inPass \cup {t}
    /\ UNCHANGED <<dbVars, cache, remote, now, callVars, mgrVars, tickers,
                   g_cache_ticker, stopped, g_db>>

\* manager() returns and the goroutine waits for the next tick
PassReturn(t) ==
    /\ t \in inPass
    /\ inPass' = inPass \ {t}
    /\ UNCHANGED <<dbVars, cache, remote, now, callVars, mgrVars, tickers,
                   g_cache_ticker, stopped, pending, g_db>>

\* The scheduler and the statements of the pass together: the goroutine
\* takes the tick and manager() begins
TickReceived(t) ==
    /\ t \in pending
    /\ ~blocked(t)
    /\ pending' = pending \ {t}
    /\ inPass' = inPass \cup {t}
    /\ BeginPass
    /\ UNCHANGED <<tickers, g_cache_ticker, stopped, g_db>>

\* purgeCache has returned: manager() returns to the range loop
GoReturn(t) ==
    /\ mpc = "end"
    /\ PassReturn(t)

\* ------------------------------------------------------------ specifications
\* One application goroutine calls the API; the manager goroutine runs beside it.
Next ==
    \/ CallerStep("c1")
    \/ manager
    \/ Tick
    \/ RemoteProgress

Spec == Init /\ [][Next]_vars

\* The statements of the API calls that run without a download from Sia.
ApiStep(c) ==
    \/ CreateBucketExists(c)
    \/ CreateBucketInsert(c)
    \/ DeleteBucket(c)
    \/ PutExists(c)
    \/ PutStat(c)
    \/ PutCreate(c)
    \/ PutCopy(c)
    \/ PutInsert(c)
    \/ PutUpload(c)
    \/ GetInfo(c)
    \/ GetStat(c)
    \/ GetCopy(c)
    \/ GetUpdateCached(c)
    \/ DeleteObjectExec(c)
    \/ DeleteObjectPost(c)

\* Two application goroutines call the API between two ticks of the manager.
NextConc == \E c \in Callers : ApiStep(c)

SpecConc == Init /\ [][NextConc]_vars

\* One application goroutine calls the API while the clock runs; no tick of
\* the manager falls into the run.
NextSeq ==
    \/ CallerStep("c1")
    \/ Tick

SpecSeq == InitSeq /\ [][NextSeq]_vars

\* The application calls Start again and Stop; the tickers fire and their
\* goroutines run passes.
NextSched ==
    \/ Start
    \/ Stop
    \/ \E t \in 1..MaxStarts : TickerFire(t)
    \/ \E t \in 1..MaxStarts : PassBegin(t)
    \/ \E t \in 1..MaxStarts : PassReturn(t)

SpecSched == Boot(Fresh) /\ [][NextSched]_vars

\* The passes of the manager alone over a store with two queued objects.
NextMgr == manager \/ Tick \/ RemoteProgress

SpecMgr == Boot(StoredTwo) /\ [][NextMgr]_vars

\* One Start: the ticker, its goroutine and the statements of its passes.
NextPass ==
    \/ \E t \in 1..MaxStarts : TickerFire(t)
    \/ \E t \in 1..MaxStarts : TickReceived(t)
    \/ CheckFiles
    \/ CheckLoop
    \/ PurgeBuckets
    \/ PurgeObjects
    \/ PurgeLoop
    \/ \E t \in 1..MaxStarts : GoReturn(t)
    \/ Tick
    \/ RemoteProgress

SpecPass == Boot(StoredTwo) /\ [][NextPass]_vars

\* getAPI /renter/files succeeds.
ListingSucceeds ==
    /\ CheckFiles
    /\ mObjs' = {obj \in mObjs : isAvailable(obj, remote)}

\* The ticker keeps firing and the goroutine keeps running its pass, and
\* the listing call succeeds again and again.
SpecLive ==
    /\ Boot(StoredTwo)
    /\ [][NextMgr]_vars
    /\ WF_vars(manager)
    /\ SF_vars(ListingSucceeds)

\* ------------------------------------------------------------------ claims
Row(k) == GetObjectInfo(k[1], k[2])
HasRow(k) == objectExists(k[1], k[2])
Returned(c, o) == pc[c] = "done" /\ arg[c].op = o
\* The evictor's os.Remove took the file of k away in this step.
Evicted(k) == cache[k] # NoFile /\ cache'[k] = NoFile

\* C1: a PutObjectFromReader of (B,x) that returned nil, followed at once by
\* GetObject(B,x) that returned nil, has written the bytes of that Put to
\* the writer and has raised cached_fetches of the fresh record from 0 to 1.
C1_PutThenGetDeliversData ==
    \A c \in Callers :
        (Returned(c, "GetObject") /\ res[c] = "ok" /\ putBefore[c] # NoFile)
        => /\ wr[c] = putBefore[c]
           /\ HasRow(K(c)) => Row(K(c)).cached_fetches = 1

\* C2 (as claimed): of two PutObjectFromReader calls for the same bucket and
\* name that ran concurrently and met no cache or Sia failure, one returned
\* nil, the other returned the "already exists" error of the existence
\* check, and one record exists for the key.
PutRace(c, d) ==
    /\ c # d
    /\ Returned(c, "PutObject") /\ Returned(d, "PutObject")
    /\ K(c) = K(d)
    /\ conc[c] \/ conc[d]
    /\ {res[c], res[d]} \cap {"CacheIOFailure", "RemoteFailure"} = {}

OneRecord(k) == Cardinality({r \in objects : KeyOf(r) = k}) = 1

C3_DeleteBucketCascades ==
    \A c \in Callers :
        (Returned(c, "DeleteBucket") /\ res[c] = "ok")
        => /\ ~bucketExists(arg[c].bucket)
           /\ ListObjects(arg[c].bucket) = {}
           /\ \A n \in Names : GetObjectInfo(arg[c].bucket, n) = NoObject

\* C4: no step changes the uploaded field of a record except one
\* markObjectUploaded of checkSiaUploads that takes it from the sentinel to
\* the clock value; a record that is no longer at the sentinel keeps its
\* uploaded value in every later step, through every later pass.
C4_UploadedSetOnce ==
    [][\A r \in objects : \A r2 \in objects' :
          (KeyOf(r2) = KeyOf(r) /\ r2.uploaded # r.uploaded)
          => /\ r.uploaded = Sentinel
             /\ r2.uploaded = now
             /\ r2.uploaded # Sentinel
             /\ mpc = "csu_loop"
             /\ \E obj \in mObjs : KeyOf(obj) = KeyOf(r)]_vars

\* A pass that began in a later second than the one that marked the record
\* has finished checkSiaUploads.
C4_Witness ==
    \E r \in objects :
        /\ r.uploaded # Sentinel
        /\ mStart > r.uploaded
        /\ mpc = "pc_buckets"

\* C5: GetObject returns NotFound when no record exists, whatever the cache
\* holds, and IncompleteUpload when the record it read is at the sentinel
\* and the cache file is absent; a download request is only sent for a key
\* whose record, as GetObject read it and as it is in the table when the
\* request is sent, has uploaded off the sentinel.
C5_GetRefusals ==
    [][\A c \in Callers :
          /\ (ops' # ops /\ pc'[c] # "idle" /\ arg'[c].op = "GetObject"
              /\ ~objectExists(arg'[c].bucket, arg'[c].name))
             => (pc'[c] = "done" /\ res'[c] = "NotFound")
          /\ (pc[c] = "get_stat" /\ pc'[c] # "get_stat"
              /\ cache[K(c)] = NoFile /\ objInfo[c].uploaded = Sentinel)
             => (pc'[c] = "done" /\ res'[c] = "IncompleteUpload")
          /\ pc[c] = "get_download"
             => /\ objInfo[c] # NoObject /\ objInfo[c].uploaded # Sentinel
                /\ HasRow(K(c)) /\ Row(K(c)).uploaded # Sentinel]_vars

C5_Witness ==
    \E c \in Callers :
        /\ Returned(c, "GetObject")
        /\ res[c] = "IncompleteUpload"
        /\ HasRow(K(c))

\* C6: when a pass of purgeCache returns and no API call is in progress,
\* every record that at the start of the pass was uploaded more than
\* purge_after > 0 seconds ago and that was never fetched has no cache file.
C6_PassEvictsEveryDueObject ==
    [][(mpc # "end" /\ mpc' = "end" /\ \A c \in Callers : pc[c] \in {"idle", "done"})
       => \A r \in objects' :
             (/\ r.uploaded # Sentinel
              /\ r.purge_after > 0
              /\ mStart - r.uploaded > r.purge_after
              /\ r.cached_fetches = 0
              /\ r.sia_fetches = 0)
             => cache'[KeyOf(r)] = NoFile]_vars

\* C7: purgeCache never removes the cache file of a key whose record has
\* purge_after = 0.
C7_ZeroPurgeAfterNeverEvicted ==
    [][\A k \in Keys :
          (Evicted(k) /\ HasRow(k)) => Row(k).purge_after # 0]_vars

\* C8: purgeCache removes the cache file of a record only when more than
\* purge_after seconds have passed since its upload and since the last
\* GetObject of the key that returned nil before the pass began.
C8_EvictsOnlyWhenNotFetchedLately ==
    [][\A k \in Keys :
          (Evicted(k) /\ HasRow(k) /\ Row(k).purge_after > 0)
          => /\ now - Row(k).uploaded > Row(k).purge_after
             /\ \A c \in Callers :
                   (/\ Returned(c, "GetObject") /\ res[c] = "ok" /\ K(c) = k
                    /\ doneAt[c] < mStart)
                   => now - doneAt[c] > Row(k).purge_after]_vars

\* C9: a GetObject that returns nil raises one counter by one: cached_fetches
\* alone when it served the file it found in the cache, sia_fetches alone
\* when it downloaded the file from Sia.
FetchCounted(c, l, dc, ds) ==
    (pc[c] = l /\ pc'[c] = "done" /\ res'[c] = "ok" /\ HasRow(K(c)))
    => \A r2 \in objects' :
          KeyOf(r2) = K(c)
          => /\ r2.cached_fetches = Row(K(c)).cached_fetches + dc
             /\ r2.sia_fetches = Row(K(c)).sia_fetches + ds

C9_FetchCountedByPath ==
    [][\A c \in Callers :
          /\ FetchCounted(c, "get_upd_cached", 1, 0)
          /\ FetchCounted(c, "get_upd_sia", 0, 1)]_vars

\* C10: while GetObject calls of several callers interleave, no step lowers
\* the stored cached_fetches or sia_fetches of a record.
C10_CountersNeverDecrease ==
    [][\A r \in objects : \A r2 \in objects' :
          KeyOf(r2) = KeyOf(r)
          => /\ r2.cached_fetches >= r.cached_fetches
             /\ r2.sia_fetches >= r.sia_fetches]_vars

\* The content a record stands for: SizeOf is one-to-one on Data, so the
\* size that insertObject stored names the content its Put carried.
ContentOf(r) == r.size

\* C11: a GetObject that returned nil after it downloaded the file from Sia
\* (the record uploaded, the cache file removed) has written to the writer
\* the content of the Put that inserted the record.
C11_DownloadReturnsPutData ==
    [][\A c \in Callers :
          (pc[c] = "get_upd_sia" /\ pc'[c] = "done" /\ res'[c] = "ok" /\ HasRow(K(c)))
          => wr'[c] = ContentOf(Row(K(c)))]_vars

\* C12: whenever no API call is in progress, a key has a record exactly if a
\* PutObjectFromReader of the key returned nil and neither DeleteObject of
\* the key nor DeleteBucket of its bucket has run since.
C12_RecordIffAccepted ==
    (\A c \in Callers : pc[c] \in {"idle", "done"})
    => \A k \in Keys : HasRow(k) <=> k \in accepted

\* The rows of table buckets named b.
BucketRows(b) == {r \in buckets : r.name = b}

\* C13: CreateBucket(b) of a bucket that has a row returns nil at once and
\* leaves table buckets as it is, so that the row keeps the created value of
\* the call that inserted it; a CreateBucket(b) that follows a CreateBucket(b)
\* that returned nil finds the row; the call that inserts the row returns nil
\* and leaves one row named b, created at the clock value of the call.
C13_CreateBucketIdempotent ==
    [][\A c \in Callers :
          /\ (ops' # ops /\ arg'[c].op = "CreateBucket"
              /\ BucketRows(arg'[c].bucket) # {})
             => /\ pc'[c] = "done" /\ res'[c] = "ok"
                /\ buckets' = buckets
                /\ Cardinality(BucketRows(arg'[c].bucket)) = 1
          /\ (ops' # ops /\ again'[c]) => BucketRows(arg'[c].bucket) # {}
          /\ (pc[c] = "cb_insert" /\ pc'[c] = "done")
             => /\ res'[c] = "ok"
                /\ buckets' \ buckets = {[name |-> arg[c].bucket, created |-> now]}
                /\ BucketRows(arg[c].bucket) = {}]_vars

\* The second of two CreateBucket(b) in a row has returned nil, in a later
\* second than the one the row was created in.
C13_Witness ==
    \E c \in Callers :
        /\ again[c] /\ Returned(c, "CreateBucket") /\ res[c] = "ok"
        /\ \E r \in buckets : r.name = arg[c].bucket /\ r.created < now

\* C14: however often Start was called, one ticker runs and no two
\* goroutines are inside manager() at the same time.
C14_OneScheduler ==
    /\ Cardinality(tickers \ stopped) <= 1
    /\ Cardinality(inPass) <= 1

\* The record of key k in a table of object records.
Rec(rows, k) == CHOOSE r \in rows : KeyOf(r) = k
Recorded(rows, k) == \E r \in rows : KeyOf(r) = k

\* C15: a Put whose Upload request fails returns the error and leaves the
\* record, the cache file and the remote as they are, the record present and,
\* while it is Queued, its cache file in place; a record leaves the Queued
\* state only in the reconciler's loop, for an object it saw available on the
\* remote; a Put of a key that has a record returns Conflict at once and
\* changes nothing.
C15_FailedUploadKeepsQueuedRecord ==
    [][\A c \in Callers :
          /\ (pc[c] = "put_upload" /\ pc'[c] = "done" /\ res'[c] = "RemoteFailure")
             => /\ objects' = objects /\ cache' = cache /\ remote' = remote
                /\ Recorded(objects, K(c))
                /\ Rec(objects, K(c)).uploaded = Sentinel => cache[K(c)] # NoFile
          /\ \A k \in Keys :
                (/\ Recorded(objects, k) /\ Rec(objects, k).uploaded = Sentinel
                 /\ Recorded(objects', k) /\ Rec(objects', k).uploaded # Sentinel)
                => mpc = "csu_loop" /\ \E obj \in mObjs : KeyOf(obj) = k
          /\ (ops' # ops /\ arg'[c].op = "PutObject" /\ Recorded(objects, K(c)'))
             => /\ pc'[c] = "done" /\ res'[c] = "Conflict"
                /\ objects' = objects /\ cache' = cache /\ remote' = remote]_vars

\* The cache file of key k holds all its bytes and nobody is writing it.
Complete(k) ==
    /\ cache[k] \in Data
    /\ \A d \in Callers : ~(pc[d] = "put_copy" /\ K(d) = k)

\* C16: when Put inserts the record and when it issues the Upload request
\* the cache file of the key is complete, and a Put whose cache write fails
\* inserts no record and issues no Upload.
C16_CacheCompleteBeforeInsertAndUpload ==
    [][\A c \in Callers :
          /\ (pc[c] = "put_insert" /\ pc'[c] = "put_upload") => Complete(K(c))
          /\ (pc[c] = "put_upload" /\ pc'[c] = "done") => Complete(K(c))
          /\ (pc'[c] = "done" /\ pc[c] # "done" /\ res'[c] = "CacheIOFailure")
             => /\ objects' = objects /\ remote' = remote
                /\ pc[c] \in {"put_create", "put_copy"}]_vars

\* The objects of the reconciler's loop whose record is still Queued.
Unmarked(objs, rows) ==
    {obj \in objs : Recorded(rows, KeyOf(obj))
                     /\ Rec(rows, KeyOf(obj)).uploaded = Sentinel}

\* C17: when the reconciler leaves its loop, with or without an error, at
\* most the one object whose statement failed is still Queued among the
\* pending objects it saw available, and the evictor runs next.
C17_ErrorDoesNotAbortPass ==
    [][(mpc = "csu_loop" /\ mpc' # "csu_loop")
       => /\ Cardinality(Unmarked(mObjs, objects')) <= 1
          /\ mpc' = "pc_buckets"]_vars

\* C18: a step of the evictor changes no bucket or object record, and the
\* cache file it removes is not the file of an object whose record is Queued
\* at that moment.
C18_EvictsOnlyDurable ==
    [][/\ (mpc \in {"pc_buckets", "pc_objects", "pc_loop"} /\ mpc' # mpc)
          => UNCHANGED dbVars
       /\ \A k \in Keys :
             (Evicted(k) /\ Recorded(objects, k))
             => Rec(objects, k).uploaded # Sentinel]_vars

\* C19: DeleteObject deletes the record of its key first, with the remote
\* not yet touched, then posts the remote delete; neither step changes the
\* cache, another object record or a bucket record, and when it returns,
\* with nil or with the error of the remote delete, the key has no record.
C19_DeleteObjectFrame ==
    [][\A c \in Callers :
          /\ (ops' # ops /\ arg'[c].op = "DeleteObject")
             => /\ pc'[c] = "del_post"
                /\ objects' = {r \in objects : KeyOf(r) # K(c)'}
                /\ buckets' = buckets /\ cache' = cache /\ remote' = remote
          /\ (pc[c] = "del_post" /\ pc'[c] = "done")
             => /\ res'[c] \in {"ok", "RemoteFailure"}
                /\ objects' = objects /\ buckets' = buckets /\ cache' = cache
                /\ remote' = IF res'[c] = "ok"
                             THEN {f \in remote : f.path # K(c)}
                             ELSE remote
                /\ GetObjectInfo(arg[c].bucket, arg[c].name)' = NoObject]_vars

\* DeleteObject returned the error of the remote delete: the key has no
\* record, its cache file and its remote file are still there, and so is the
\* record of the other object.
C19_Witness ==
    \E c \in Callers :
        /\ Returned(c, "DeleteObject") /\ res[c] = "RemoteFailure"
        /\ ~Recorded(objects, K(c))
        /\ cache[K(c)] \in Data
        /\ RemoteHas(K(c))
        /\ Recorded(objects, OtherKey)

\* C20: with one caller at a time, GetObject asks for the download exactly
\* when the record it read is uploaded and the cache file is absent, and
\* does so once; the download writes the remote bytes to the cache path,
\* they are copied to the writer and the file stays, so that a later Get
\* finds it and asks for no download; a failed download returns its error
\* with catalog, cache and remote unchanged.
C20_DownloadOnceThenCached ==
    [][\A c \in Callers :
          /\ pc'[c] = "get_download" => pc[c] \in {"get_stat", "get_download"}
          /\ (pc[c] = "get_stat" /\ pc'[c] # "get_stat")
             => (pc'[c] = "get_download"
                 <=> cache[K(c)] = NoFile /\ objInfo[c].uploaded # Sentinel)
          /\ (pc[c] = "get_download" /\ pc'[c] # "get_download")
             => /\ objects' = objects /\ remote' = remote
                /\ \/ /\ pc'[c] = "get_copy_dl"
                      /\ cache' = [cache EXCEPT ![K(c)] = RemoteFile(K(c)).data]
                      /\ cache'[K(c)] \in Data
                   \/ /\ pc'[c] = "done" /\ res'[c] = "RemoteFailure"
                      /\ cache' = cache
          /\ (pc[c] = "get_copy_dl" /\ pc'[c] # "get_copy_dl")
             => /\ pc'[c] = "get_upd_sia"
                /\ wr'[c] = cache[K(c)] /\ cache' = cache
          /\ (pc[c] = "get_upd_sia" /\ pc'[c] = "done")
             => /\ res'[c] = "ok" /\ remote' = remote
                /\ cache'[K(c)] \in Data /\ wr'[c] = cache'[K(c)]
          /\ \A k \in Keys : cache[k] # NoFile => cache'[k] # NoFile]_vars

\* The Get that follows the downloading Get has returned: the record is
\* uploaded, was fetched twice, and the cache file that the first Get
\* restored is what the writer received.
C20_Witness ==
    \E c \in Callers :
        /\ Returned(c, "GetObject") /\ res[c] = "ok"
        /\ Recorded(objects, K(c))
        /\ Rec(objects, K(c)).uploaded # Sentinel
        /\ Rec(objects, K(c)).cached_fetches = 2
        /\ cache[K(c)] \in Data /\ wr[c] = cache[K(c)]

\* C21: under SpecLive the Queued object B1/y, whose UPDATE never fails, is
\* marked uploaded some time after the remote reports it available, also
\* while the UPDATE of the other pending object B1/x keeps failing.
C21_AvailableEventuallyMarked ==
    (Recorded(objects, OtherKey) /\ RemoteAvailable(OtherKey))
    ~> (Rec(objects, OtherKey).uploaded # Sentinel)

\* C22: the goroutine of a ticker on which Stop() was called begins no pass.
C22_NoPassAfterStop ==
    [][\A t \in 1..MaxStarts : t \in inPass' \ inPass => t \notin stopped]_vars

Reconciling == {"csu_files", "csu_loop"}
Evicting == {"pc_buckets", "pc_objects", "pc_loop"}

\* C23: after one Start a pass begins only while no pass is running; in a
\* pass the reconciler's statements come first and only at its begin, the
\* evictor starts when the reconciler has left its loop, and no object
\* record changes once the evictor runs.
C23_PassesSequential ==
    [][/\ inPass' # inPass /\ inPass' # {}
          => inPass = {} /\ mpc \in {"idle", "end"} /\ mpc' = "csu_files"
       /\ (mpc' \in Reconciling /\ mpc \notin Reconciling)
          => mpc \in {"idle", "end"} /\ inPass' # inPass
       /\ (mpc' \in Evicting /\ mpc \notin Evicting)
          => mpc \in Reconciling /\ mObjs' = {}
       /\ mpc \in Evicting
          => mpc' \in Evicting \cup {"end"} /\ objects' = objects]_vars

\* A tick arrived while the pass is still in the evictor's loop.
C23_Witness ==
    /\ Cardinality(tickers) = 1
    /\ pending = {1} /\ inPass = {1}
    /\ mpc = "pc_loop"

\* Every object record of rows names a bucket that has a record in bs.
Referenced(rows, bs) == \A r \in rows : \E b \in bs : b.name = r.bucket

\* C24: no step of CreateBucket, DeleteBucket, Put or DeleteObject takes a
\* catalog in which every object record names an existing bucket to one in
\* which some object record does not.
C24_ObjectsNameExistingBuckets ==
    [][Referenced(objects, buckets) => Referenced(objects', buckets')]_vars

\* C25: an object record that is marked uploaded has a remote file under its
\* key that is available and holds the bytes of the Put that inserted it.
C25_DurableMeansConfirmed ==
    \A r \in objects :
        r.uploaded # Sentinel
        => \E f \in remote :
              /\ f.path = KeyOf(r)
              /\ f.available
              /\ f.data = ContentOf(r)

=============================================================================
